---- MODULE Spec2Model ----
(***************************************************************************)
(* Model of assets/js/theme-switcher.js: a three-mode (light/dark/auto)    *)
(* theme toggle.  The module state (currentTheme, systemPrefersDark, the   *)
(* two DOM handles), the DOM surface it writes (body classes, icon         *)
(* classes, title / aria-label, event listeners), localStorage and the     *)
(* prefers-color-scheme media query are the state; every handler of the    *)
(* file is one action that runs to completion (UI event loop).             *)
(***************************************************************************)
EXTENDS Naturals, FiniteSets, Sequences, TLC

(* ---------------- constants of the source ---------------- *)
LIGHT == "light"
DARK == "dark"
AUTO == "auto"
THEMES == {LIGHT, DARK, AUTO}

BODY_CLASS_LIGHT == "manual-light"
BODY_CLASS_DARK == "manual-dark"
BodyThemeClasses == {BODY_CLASS_LIGHT, BODY_CLASS_DARK}

FA_MOON == "fa-moon"
FA_SUN == "fa-sun"
FA_ADJUST == "fa-adjust"
IconGlyphs == {FA_MOON, FA_SUN, FA_ADJUST}

TIP_LIGHT == "Switch to light mode"
TIP_DARK == "Switch to dark mode"
TIP_AUTO == "Switch to auto mode"

(* ---------------- environment the page can present ---------------- *)
\* localStorage.getItem(STORAGE_KEY): null (ABSENT), the empty string, the
\* three valid literals and one literal outside the enum.
ABSENT == "<null>"
StoredValues == {ABSENT, "", LIGHT, DARK, AUTO, "purple"}
\* e.key of a keydown event: the two activating keys and one other key.
Keys == {"Enter", " ", "Tab"}
\* class list of the .theme-icon element as served by the page
HtmlIconClasses == {{}, {FA_MOON}}
\* e.key slot of an event that is no keydown
NO_KEY == "<none>"
\* attribute value of an attribute the page did not set
UNSET == "<unset>"
\* value of a JS variable never assigned / a switch without matching case
UNDEFINED == "<undefined>"

VARIABLES
  currentTheme,        \* let currentTheme
  systemPrefersDark,   \* let systemPrefersDark
  themeSwitcher,       \* let themeSwitcher : TRUE iff it holds an element
  themeIcon,           \* let themeIcon     : TRUE iff it holds an element
  initResult,          \* how far init() got: none / deferred / aborted / ok
  exported,            \* window.ThemeSwitcher has been assigned
  readyState,          \* document.readyState: loading / ready
  domSwitcher,         \* the page has #theme-switcher
  domIcon,             \* ... and it has a .theme-icon child
  hasMatchMedia,       \* window.matchMedia exists
  mqlMatches,          \* matchMedia('(prefers-color-scheme: dark)').matches
  stored,              \* localStorage value under 'preferred-theme'
  bodyClasses,         \* theme classes on document.body
  iconClasses,         \* glyph classes on the icon element
  title,               \* title attribute of the control
  ariaLabel,           \* aria-label attribute of the control
  dclListeners,        \* listeners on document 'DOMContentLoaded'
  mqlListeners,        \* listeners on the media query 'change'
  clickListeners,      \* listeners on the control 'click'
  keydownListeners,    \* listeners on the control 'keydown'
  effectiveTheme,      \* local effectiveTheme of the last applyTheme()
  loadStatus,          \* outcome of loadThemePreference(): none / ok / threw
  saveStatus,          \* outcome of the last saveThemePreference()
  defaultPrevented,    \* e.defaultPrevented of the last dispatched UI event
  getResult,           \* value returned by the last getCurrentTheme()
  lastOp,              \* the handler that ran last
  cycleStep,           \* 1..3: toggles made, with systemPrefersDark fixed,
                       \* since a state whose mode was AUTO; 0: not counting
  spdAtLeaveAuto,      \* system preference (light/dark) the program held
                       \* when a toggle last took the mode out of AUTO
  unloadMode,          \* mode of the previous page when it was left, if
                       \* its last toggle saved it
  initRuns,            \* times init's body (lines 39-65) ran on this page
  sinceAuto,           \* toggles made since the mode was last AUTO or was
                       \* loaded (3 stands for 3 or more)
  lastKey              \* e.key of the event just dispatched, if a keydown

progVars == <<currentTheme, systemPrefersDark, themeSwitcher, themeIcon,
              initResult, exported>>
envVars == <<readyState, domSwitcher, domIcon, hasMatchMedia, mqlMatches>>
storeVars == <<stored, loadStatus, saveStatus>>
viewVars == <<bodyClasses, iconClasses, title, ariaLabel, effectiveTheme>>
lsnVars == <<dclListeners, mqlListeners, clickListeners, keydownListeners>>
obsVars == <<defaultPrevented, getResult, lastOp, cycleStep, spdAtLeaveAuto,
            unloadMode, initRuns, sinceAuto, lastKey>>
vars == <<progVars, envVars, storeVars, viewVars, lsnVars, obsVars>>

ToggleOps == {"toggle", "click", "keyToggle"}

(* ---------------- pure parts of the handlers ---------------- *)

\* bug: from AUTO the manual value is what AUTO already shows
NextTheme_SameAsSystem(cur, spd) ==
  CASE cur = AUTO -> (IF spd THEN DARK ELSE LIGHT)
    [] cur = LIGHT -> DARK
    [] cur = DARK -> AUTO
    [] OTHER -> cur

\* bug: LIGHT goes straight back to AUTO
NextTheme_LightToAuto(cur, spd) ==
  CASE cur = AUTO -> (IF spd THEN LIGHT ELSE DARK)
    [] cur = LIGHT -> AUTO
    [] cur = DARK -> AUTO
    [] OTHER -> cur

\* bug: DARK goes back to LIGHT, AUTO is never re-entered
NextTheme_NoWayBack(cur, spd) ==
  CASE cur = AUTO -> (IF spd THEN LIGHT ELSE DARK)
    [] cur = LIGHT -> DARK
    [] cur = DARK -> LIGHT
    [] OTHER -> cur

\* toggleTheme: the switch on currentTheme
NextTheme(cur, spd) ==
  CASE cur = AUTO -> (IF spd THEN LIGHT ELSE DARK)
    [] cur = LIGHT -> DARK
    [] cur = DARK -> AUTO
    [] OTHER -> cur

\* applyTheme / getCurrentTheme: resolution of AUTO
EffectiveTheme(cur, spd) ==
  IF cur = AUTO THEN (IF spd THEN DARK ELSE LIGHT) ELSE cur

\* applyTheme: the class added to body
BodyClassFor(eff) ==
  IF eff = DARK THEN BODY_CLASS_DARK ELSE BODY_CLASS_LIGHT

\* bug: the glyph shows the theme in force instead of the one a click leads to
IconFor_ShowsCurrent(cur, eff) ==
  IF cur = AUTO THEN FA_ADJUST
  ELSE IF eff = DARK THEN FA_MOON
  ELSE FA_SUN

\* updateThemeIcon: the glyph added
IconFor(cur, eff) ==
  IF cur = AUTO THEN FA_ADJUST
  ELSE IF eff = DARK THEN FA_SUN
  ELSE FA_MOON

\* updateThemeTooltip: the switch on currentTheme (no default case)
TooltipFor(cur) ==
  CASE cur = AUTO -> TIP_LIGHT
    [] cur = LIGHT -> TIP_DARK
    [] cur = DARK -> TIP_AUTO
    [] OTHER -> UNDEFINED

\* bug: any non-empty stored string is taken as the mode
LoadedTheme_NoValidation(saved, cur) ==
  IF saved # ABSENT /\ saved # "" THEN saved ELSE cur

\* bug: the stored string is looked up among the keys of THEMES
LoadedTheme_KeysNotValues(saved, cur) ==
  IF saved \in {"LIGHT", "DARK", "AUTO"} THEN saved ELSE cur

\* loadThemePreference: saved && Object.values(THEMES).includes(saved)
LoadedTheme(saved, cur) ==
  IF saved # ABSENT /\ saved # "" /\ saved \in THEMES THEN saved ELSE cur

\* bug: only the container is tested
HandlesMissing_SwitcherOnly(sw, ic) == ~sw

\* init: if (!themeSwitcher || !themeIcon)
HandlesMissing(sw, ic) == ~sw \/ ~ic

\* bug: the space key is forgotten
IsActivationKey_EnterOnly(key) == key = "Enter"

\* handleKeyDown: e.key === 'Enter' || e.key === ' '
IsActivationKey(key) == key = "Enter" \/ key = " "

\* getCurrentTheme
GetCurrentTheme(cur, spd) ==
  [current |-> cur, effective |-> EffectiveTheme(cur, spd)]

\* getResult before any getCurrentTheme() call
NoResult == [current |-> UNDEFINED, effective |-> UNDEFINED]

\* a system preference as a word
SchemeOf(dark) == IF dark THEN DARK ELSE LIGHT

(* ---------------- state after the page starts loading ---------------- *)
FreshModule ==
  /\ currentTheme = AUTO
  /\ systemPrefersDark = FALSE
  /\ themeSwitcher = FALSE
  /\ themeIcon = FALSE
  /\ initResult = "none"
  /\ exported = FALSE
  /\ bodyClasses = {}
  /\ title = UNSET
  /\ ariaLabel = UNSET
  /\ dclListeners = {}
  /\ mqlListeners = {}
  /\ clickListeners = {}
  /\ keydownListeners = {}
  /\ effectiveTheme = UNDEFINED
  /\ loadStatus = "none"
  /\ saveStatus = "none"
  /\ defaultPrevented = FALSE
  /\ getResult = NoResult
  /\ cycleStep = 0
  /\ spdAtLeaveAuto = UNDEFINED
  /\ unloadMode = UNDEFINED
  /\ initRuns = 0
  /\ sinceAuto = 0
  /\ lastKey = NO_KEY

Init ==
  /\ FreshModule
  /\ lastOp = "none"
  /\ readyState \in {"loading", "ready"}
  /\ domSwitcher \in BOOLEAN
  /\ domIcon \in {b \in BOOLEAN : b => domSwitcher}
  /\ iconClasses \in {c \in HtmlIconClasses : ~domIcon => c = {}}
  /\ hasMatchMedia \in BOOLEAN
  /\ mqlMatches \in BOOLEAN
  /\ stored \in StoredValues

(* ---------------- the functions of the file, as steps ---------------- *)

\* bug: updateThemeIcon adds the glyph without removing the old ones
ApplyTheme_NoGlyphRemove(cur, spd) ==
  LET eff == EffectiveTheme(cur, spd) IN
  /\ effectiveTheme' = eff
  /\ bodyClasses' = (bodyClasses \ BodyThemeClasses) \cup {BodyClassFor(eff)}
  /\ iconClasses' = IF themeIcon'
                    THEN iconClasses \cup {IconFor(cur, eff)}
                    ELSE iconClasses
  /\ title' = IF themeSwitcher' THEN TooltipFor(cur) ELSE title
  /\ ariaLabel' = IF themeSwitcher' THEN TooltipFor(cur) ELSE ariaLabel

\* bug: applyTheme adds the body class without removing the other one
ApplyTheme_NoClassRemove(cur, spd) ==
  LET eff == EffectiveTheme(cur, spd) IN
  /\ effectiveTheme' = eff
  /\ bodyClasses' = bodyClasses \cup {BodyClassFor(eff)}
  /\ iconClasses' = IF themeIcon'
                    THEN (iconClasses \ IconGlyphs) \cup {IconFor(cur, eff)}
                    ELSE iconClasses
  /\ title' = IF themeSwitcher' THEN TooltipFor(cur) ELSE title
  /\ ariaLabel' = IF themeSwitcher' THEN TooltipFor(cur) ELSE ariaLabel

\* applyTheme, with updateThemeIcon and updateThemeTooltip, on the module
\* state as it will be after the calling handler's assignments
ApplyTheme(cur, spd) ==
  LET eff == EffectiveTheme(cur, spd) IN
  /\ effectiveTheme' = eff
  /\ bodyClasses' = (bodyClasses \ BodyThemeClasses) \cup {BodyClassFor(eff)}
  /\ iconClasses' = IF themeIcon'
                    THEN (iconClasses \ IconGlyphs) \cup {IconFor(cur, eff)}
                    ELSE iconClasses
  /\ title' = IF themeSwitcher' THEN TooltipFor(cur) ELSE title
  /\ ariaLabel' = IF themeSwitcher' THEN TooltipFor(cur) ELSE ariaLabel

\* bug: AUTO is saved by removing the key
SaveThemePreference_RemovesAuto(cur) ==
  \E throws \in BOOLEAN :
    /\ stored' = IF throws THEN stored ELSE IF cur = AUTO THEN ABSENT ELSE cur
    /\ saveStatus' = IF throws THEN "threw" ELSE "ok"

\* saveThemePreference: setItem may throw; the catch only logs
SaveThemePreference(cur) ==
  \E throws \in BOOLEAN :
    /\ stored' = IF throws THEN stored ELSE cur
    /\ saveStatus' = IF throws THEN "threw" ELSE "ok"

\* loadThemePreference: getItem may throw; the catch only logs
LoadThemePreference ==
  \E throws \in BOOLEAN :
    /\ currentTheme' = IF throws THEN currentTheme
                       ELSE LoadedTheme(stored, currentTheme)
    /\ loadStatus' = IF throws THEN "threw" ELSE "ok"

\* bug: setItem's exception is not caught, so a failed write ends the call
\* before applyTheme()
ToggleTheme_Uncaught(op) ==
  LET next == NextTheme(currentTheme, systemPrefersDark) IN
  /\ currentTheme' = next
  /\ SaveThemePreference(next)
  /\ UNCHANGED <<systemPrefersDark, themeSwitcher, themeIcon>>
  /\ IF saveStatus' = "threw"
     THEN UNCHANGED viewVars
     ELSE ApplyTheme(next, systemPrefersDark)
  /\ lastOp' = op
  /\ cycleStep' = IF cycleStep \in 1..2 THEN cycleStep + 1
                  ELSE IF currentTheme = AUTO THEN 1
                  ELSE 0
  /\ spdAtLeaveAuto' = IF currentTheme = AUTO THEN SchemeOf(systemPrefersDark)
                       ELSE spdAtLeaveAuto
  /\ sinceAuto' = IF next = AUTO THEN 0
                  ELSE IF sinceAuto < 3 THEN sinceAuto + 1
                  ELSE 3
  /\ UNCHANGED <<initResult, exported, envVars, loadStatus, lsnVars, getResult,
                 unloadMode, initRuns>>

\* toggleTheme, called by `op` (the export, the click or the keydown handler)
ToggleTheme(op) ==
  LET next == NextTheme(currentTheme, systemPrefersDark) IN
  /\ currentTheme' = next
  /\ SaveThemePreference(next)
  /\ UNCHANGED <<systemPrefersDark, themeSwitcher, themeIcon>>
  /\ ApplyTheme(next, systemPrefersDark)
  /\ lastOp' = op
  /\ cycleStep' = IF cycleStep \in 1..2 THEN cycleStep + 1
                  ELSE IF currentTheme = AUTO THEN 1
                  ELSE 0
  /\ spdAtLeaveAuto' = IF currentTheme = AUTO THEN SchemeOf(systemPrefersDark)
                       ELSE spdAtLeaveAuto
  /\ sinceAuto' = IF next = AUTO THEN 0
                  ELSE IF sinceAuto < 3 THEN sinceAuto + 1
                  ELSE 3
  /\ UNCHANGED <<initResult, exported, envVars, loadStatus, lsnVars, getResult,
                 unloadMode, initRuns>>

\* bug: the theme is re-applied before the new preference is stored
HandleSystemThemeChange_ApplyFirst(matches) ==
  /\ systemPrefersDark' = matches
  /\ UNCHANGED <<currentTheme, themeSwitcher, themeIcon>>
  /\ IF currentTheme = AUTO
     THEN ApplyTheme(currentTheme, systemPrefersDark)
     ELSE UNCHANGED viewVars
  /\ UNCHANGED storeVars

\* bug: a system change drops the manual choice
HandleSystemThemeChange_DropsManual(matches) ==
  /\ systemPrefersDark' = matches
  /\ currentTheme' = AUTO
  /\ UNCHANGED <<themeSwitcher, themeIcon>>
  /\ ApplyTheme(AUTO, matches)
  /\ UNCHANGED storeVars

\* bug: the preference is recorded only while the mode is AUTO
HandleSystemThemeChange_OnlyWhenAuto(matches) ==
  /\ UNCHANGED <<currentTheme, themeSwitcher, themeIcon>>
  /\ IF currentTheme = AUTO
     THEN /\ systemPrefersDark' = matches
          /\ ApplyTheme(currentTheme, matches)
     ELSE UNCHANGED <<systemPrefersDark, viewVars>>
  /\ UNCHANGED storeVars

\* handleSystemThemeChange(e), e.matches = matches
HandleSystemThemeChange(matches) ==
  /\ systemPrefersDark' = matches
  /\ UNCHANGED <<currentTheme, themeSwitcher, themeIcon>>
  /\ IF currentTheme = AUTO
     THEN ApplyTheme(currentTheme, matches)
     ELSE UNCHANGED viewVars
  /\ UNCHANGED storeVars

\* init, lines 39-65: the part after the readyState test
InitBody ==
  /\ themeSwitcher' = domSwitcher
  /\ themeIcon' = (domSwitcher /\ domIcon)
  /\ IF HandlesMissing(domSwitcher, domSwitcher /\ domIcon)
     THEN /\ initResult' = "aborted"
          /\ lastOp' = "initAbort"
          /\ UNCHANGED <<currentTheme, systemPrefersDark, storeVars, viewVars,
                         mqlListeners, clickListeners, keydownListeners>>
     ELSE /\ initResult' = "ok"
          /\ lastOp' = "initOK"
          /\ systemPrefersDark' = IF hasMatchMedia THEN mqlMatches
                                  ELSE systemPrefersDark
          /\ mqlListeners' = IF hasMatchMedia
                             THEN mqlListeners \cup {"handleSystemThemeChange"}
                             ELSE mqlListeners
          /\ LoadThemePreference
          /\ UNCHANGED <<stored, saveStatus>>
          /\ ApplyTheme(currentTheme', systemPrefersDark')
          /\ clickListeners' = clickListeners \cup {"handleThemeToggle"}
          /\ keydownListeners' = keydownListeners \cup {"handleKeyDown"}
  /\ cycleStep' = 0
  /\ initRuns' = initRuns + 1
  /\ sinceAuto' = IF currentTheme' = currentTheme THEN sinceAuto ELSE 0
  /\ lastKey' = NO_KEY
  /\ UNCHANGED <<defaultPrevented, getResult, spdAtLeaveAuto, unloadMode>>

\* bug: the return after registering the listener is missing
InitCall_NoReturn ==
  /\ dclListeners' = IF readyState = "loading"
                     THEN dclListeners \cup {"init"}
                     ELSE dclListeners
  /\ InitBody

\* init, lines 32-37: defer while the document is loading
InitCall ==
  IF readyState = "loading"
  THEN /\ dclListeners' = dclListeners \cup {"init"}
       /\ initResult' = "deferred"
       /\ lastOp' = "initDeferred"
       /\ UNCHANGED <<currentTheme, systemPrefersDark, themeSwitcher, themeIcon,
                      storeVars, viewVars, mqlListeners, clickListeners,
                      keydownListeners, defaultPrevented, getResult, cycleStep,
                      spdAtLeaveAuto, unloadMode, initRuns, sinceAuto>>
       /\ lastKey' = NO_KEY
  ELSE /\ InitBody
       /\ UNCHANGED dclListeners

(* ---------------- actions ---------------- *)

\* the script runs: init() at line 228, then the export at line 231
ScriptLoad ==
  /\ ~exported
  /\ exported' = TRUE
  /\ InitCall
  /\ UNCHANGED envVars

\* the document becomes ready; a registered init listener runs once
DOMContentLoaded ==
  /\ readyState = "loading"
  /\ readyState' = "ready"
  /\ UNCHANGED <<domSwitcher, domIcon, hasMatchMedia, mqlMatches, exported,
                 dclListeners>>
  /\ IF "init" \in dclListeners
     THEN InitBody
     ELSE /\ lastOp' = "ready"
          /\ UNCHANGED <<currentTheme, systemPrefersDark, themeSwitcher,
                         themeIcon, initResult, storeVars, viewVars,
                         mqlListeners, clickListeners, keydownListeners,
                         defaultPrevented, getResult, cycleStep,
                         spdAtLeaveAuto, unloadMode, initRuns, sinceAuto>>
          /\ lastKey' = NO_KEY

\* the system colour scheme changes; the media query notifies its listeners
SystemPreferenceChange ==
  /\ hasMatchMedia
  /\ mqlMatches' = ~mqlMatches
  /\ UNCHANGED <<readyState, domSwitcher, domIcon, hasMatchMedia>>
  /\ IF mqlListeners # {}
     THEN /\ HandleSystemThemeChange(mqlMatches')
          /\ lastOp' = "syschange"
          /\ cycleStep' = 0
     ELSE /\ lastOp' = "sysunseen"
          /\ UNCHANGED <<currentTheme, systemPrefersDark, themeSwitcher,
                         themeIcon, storeVars, viewVars, cycleStep>>
  /\ lastKey' = NO_KEY
  /\ UNCHANGED <<initResult, exported, lsnVars, defaultPrevented, getResult,
                 spdAtLeaveAuto, unloadMode, initRuns, sinceAuto>>

\* handleThemeToggle: a click on the control
Click ==
  /\ clickListeners # {}
  /\ defaultPrevented' = TRUE
  /\ lastKey' = NO_KEY
  /\ ToggleTheme("click")

\* handleKeyDown: a keydown on the control
KeyDown ==
  /\ keydownListeners # {}
  /\ \E key \in Keys :
       /\ lastKey' = key
       /\ IF IsActivationKey(key)
          THEN /\ defaultPrevented' = TRUE
               /\ ToggleTheme("keyToggle")
          ELSE /\ defaultPrevented' = FALSE
               /\ lastOp' = "keyOther"
               /\ UNCHANGED <<progVars, envVars, storeVars, viewVars, lsnVars,
                              getResult, cycleStep, spdAtLeaveAuto,
                              unloadMode, initRuns, sinceAuto>>

\* window.ThemeSwitcher.toggleTheme() called by another script
ExportedToggle ==
  /\ exported
  /\ ToggleTheme("toggle")
  /\ lastKey' = NO_KEY
  /\ UNCHANGED defaultPrevented

\* window.ThemeSwitcher.getCurrentTheme() called by another script
ExportedGet ==
  /\ exported
  /\ getResult' = GetCurrentTheme(currentTheme, systemPrefersDark)
  /\ lastOp' = "get"
  /\ lastKey' = NO_KEY
  /\ UNCHANGED <<progVars, envVars, storeVars, viewVars, lsnVars,
                 defaultPrevented, cycleStep, spdAtLeaveAuto, unloadMode,
                 initRuns, sinceAuto>>

\* the page is left and a page of the site is loaded: the module state and
\* the DOM start afresh, localStorage and the system preference stay
Reload ==
  /\ exported
  /\ currentTheme' = AUTO
  /\ systemPrefersDark' = FALSE
  /\ themeSwitcher' = FALSE
  /\ themeIcon' = FALSE
  /\ initResult' = "none"
  /\ exported' = FALSE
  /\ bodyClasses' = {}
  /\ title' = UNSET
  /\ ariaLabel' = UNSET
  /\ dclListeners' = {}
  /\ mqlListeners' = {}
  /\ clickListeners' = {}
  /\ keydownListeners' = {}
  /\ effectiveTheme' = UNDEFINED
  /\ loadStatus' = "none"
  /\ saveStatus' = "none"
  /\ defaultPrevented' = FALSE
  /\ getResult' = NoResult
  /\ cycleStep' = 0
  /\ spdAtLeaveAuto' = UNDEFINED
  /\ unloadMode' = IF saveStatus = "ok" THEN currentTheme ELSE UNDEFINED
  /\ initRuns' = 0
  /\ sinceAuto' = 0
  /\ lastKey' = NO_KEY
  /\ lastOp' = "reload"
  /\ readyState' \in {"loading", "ready"}
  /\ domSwitcher' \in BOOLEAN
  /\ domIcon' \in {b \in BOOLEAN : b => domSwitcher'}
  /\ iconClasses' \in {c \in HtmlIconClasses : ~domIcon' => c = {}}
  /\ UNCHANGED <<hasMatchMedia, mqlMatches, stored>>

Next ==
  \/ ScriptLoad
  \/ DOMContentLoaded
  \/ SystemPreferenceChange
  \/ Click
  \/ KeyDown
  \/ ExportedToggle
  \/ ExportedGet
  \/ Reload

Spec == Init /\ [][Next]_vars

\* one page, from its load on, on which toggleTheme() keeps being called:
\* the script does run, and a toggle that can be made is eventually made
NextOnePage ==
  \/ ScriptLoad
  \/ DOMContentLoaded
  \/ SystemPreferenceChange
  \/ Click
  \/ KeyDown
  \/ ExportedToggle
  \/ ExportedGet

SpecToggling ==
  /\ Init
  /\ [][NextOnePage]_vars
  /\ WF_vars(ScriptLoad)
  /\ WF_vars(ExportedToggle)

(* ---------------- properties ---------------- *)

\* the body carries exactly the class of scheme `dark`
BodyShows(classes, dark) == classes = {BodyClassFor(SchemeOf(dark))}

\* C1 as stated: for either system preference, toggles counted from a state
\* whose mode is AUTO bring the mode back to AUTO at the third toggle and not
\* at the first or the second.
C1_Original ==
  /\ cycleStep = 3 => currentTheme = AUTO
  /\ cycleStep \in 1..2 => currentTheme # AUTO

\* C1 as amended: counted from a state whose mode is AUTO, with the system
\* preference fixed: when the system prefers dark the modes after 1, 2, 3
\* toggles are LIGHT, DARK, AUTO (period 3); when it prefers light they are
\* DARK, AUTO, DARK (period 2).
C1_TogglePeriod ==
  /\ systemPrefersDark =>
       /\ cycleStep = 1 => currentTheme = LIGHT
       /\ cycleStep = 2 => currentTheme = DARK
       /\ cycleStep = 3 => currentTheme = AUTO
  /\ ~systemPrefersDark =>
       /\ cycleStep = 1 => currentTheme = DARK
       /\ cycleStep = 2 => currentTheme = AUTO
       /\ cycleStep = 3 => currentTheme = DARK

C1_Witness ==
  /\ cycleStep = 3
  /\ currentTheme = AUTO
  /\ systemPrefersDark
  /\ lastOp \in ToggleOps

\* C2: a toggleTheme() step takes AUTO to LIGHT when the system prefers dark
\* and to DARK otherwise, LIGHT to DARK, DARK to AUTO, and nothing else.
C2_ToggleTransition ==
  [][lastOp' \in ToggleOps =>
       \/ currentTheme = AUTO /\ systemPrefersDark /\ currentTheme' = LIGHT
       \/ currentTheme = AUTO /\ ~systemPrefersDark /\ currentTheme' = DARK
       \/ currentTheme = LIGHT /\ currentTheme' = DARK
       \/ currentTheme = DARK /\ currentTheme' = AUTO]_vars

C2_Witness ==
  /\ lastOp \in ToggleOps
  /\ cycleStep = 1
  /\ systemPrefersDark
  /\ currentTheme = LIGHT

\* C3: in every reachable state currentTheme is one of the three modes, and
\* the effective theme (what getCurrentTheme() would return and has returned,
\* and what applyTheme() last computed) is LIGHT or DARK, never AUTO.
C3_EffectiveIsLightOrDark ==
  /\ currentTheme \in {LIGHT, DARK, AUTO}
  /\ GetCurrentTheme(currentTheme, systemPrefersDark).effective \in {LIGHT, DARK}
  /\ getResult # NoResult => getResult.effective \in {LIGHT, DARK}
  /\ effectiveTheme # UNDEFINED => effectiveTheme \in {LIGHT, DARK}

C3_Witness ==
  /\ initResult = "ok"
  /\ loadStatus = "ok"
  /\ stored = "purple"
  /\ currentTheme = AUTO
  /\ lastOp = "get"
  /\ getResult.effective = DARK
  /\ effectiveTheme = DARK

\* C4 as stated: a system-preference change leaves body class and icon alone
\* in a manual mode and flips both of them in AUTO.
C4_Original ==
  [][lastOp' = "syschange" =>
       IF currentTheme # AUTO
       THEN bodyClasses' = bodyClasses /\ iconClasses' = iconClasses
       ELSE bodyClasses' # bodyClasses /\ iconClasses' # iconClasses]_vars

\* C4 as amended: a system-preference change leaves body class and icon alone
\* in a manual mode; in AUTO it flips the body class to the other theme class
\* and the icon stays the adjust glyph.
C4_SystemChangeVisibleOnlyInAuto ==
  [][lastOp' = "syschange" =>
       IF currentTheme # AUTO
       THEN bodyClasses' = bodyClasses /\ iconClasses' = iconClasses
       ELSE /\ BodyShows(bodyClasses, ~mqlMatches')
            /\ BodyShows(bodyClasses', mqlMatches')
            /\ iconClasses = {FA_ADJUST}
            /\ iconClasses' = {FA_ADJUST}]_vars

C4_Witness ==
  /\ lastOp = "syschange"
  /\ currentTheme = AUTO
  /\ systemPrefersDark
  /\ bodyClasses = {BODY_CLASS_DARK}
  /\ iconClasses = {FA_ADJUST}

\* C5: a system-preference change event leaves currentTheme and the store as
\* they are and sets systemPrefersDark to the reported value, in every mode.
C5_SystemChangeFrame ==
  [][lastOp' = "syschange" =>
       /\ currentTheme' = currentTheme
       /\ stored' = stored
       /\ saveStatus' = saveStatus
       /\ systemPrefersDark' = mqlMatches']_vars

C5_Witness ==
  /\ lastOp = "syschange"
  /\ currentTheme = DARK
  /\ systemPrefersDark
  /\ stored = LIGHT

\* the page was loaded afresh and init ran to the end with nothing in between:
\* no toggle since the load, and the store could be read
FreshlyInitialized ==
  /\ lastOp = "initOK"
  /\ saveStatus = "none"
  /\ loadStatus = "ok"

\* C6: after a reload followed by a successful init, currentTheme is the
\* stored literal when that is "light", "dark" or "auto" (so it is the mode
\* the last toggle of the previous page saved), and AUTO when the stored
\* value is any other string or absent.
C6_PersistReloadRoundTrip ==
  FreshlyInitialized =>
    /\ stored \in {"light", "dark", "auto"} => currentTheme = stored
    /\ stored \notin {"light", "dark", "auto"} => currentTheme = AUTO
    /\ unloadMode # UNDEFINED => currentTheme = unloadMode

C6_Witness ==
  /\ FreshlyInitialized
  /\ unloadMode = LIGHT
  /\ stored = "light"
  /\ currentTheme = LIGHT

\* C7: right after a successful init with the system reporting dark: with
\* nothing stored the body has the dark class, the icon is the adjust glyph
\* and the tooltip is "Switch to light mode"; with "light" stored the body
\* has the light class, the icon is the moon glyph and the tooltip is
\* "Switch to dark mode".
C7_InitialVisualState ==
  (FreshlyInitialized /\ hasMatchMedia /\ mqlMatches) =>
    /\ stored = ABSENT =>
         /\ bodyClasses = {"manual-dark"}
         /\ iconClasses = {"fa-adjust"}
         /\ title = "Switch to light mode"
    /\ stored = "light" =>
         /\ bodyClasses = {"manual-light"}
         /\ iconClasses = {"fa-moon"}
         /\ title = "Switch to dark mode"

C7_Witness ==
  /\ FreshlyInitialized
  /\ hasMatchMedia
  /\ mqlMatches
  /\ stored = "light"
  /\ currentTheme = LIGHT
  /\ bodyClasses = {BODY_CLASS_LIGHT}

\* C8: a toggle from manual DARK gives mode AUTO with the effective theme
\* taken from systemPrefersDark as it is now; once the program is subscribed
\* to the system preference that is the preference last reported, so the body
\* class then applied is the one of the current system preference, whatever
\* it was when AUTO was left.
C8_ReturnToAutoUsesCurrentPreference ==
  [][(lastOp' \in ToggleOps /\ currentTheme = DARK) =>
       /\ currentTheme' = AUTO
       /\ effectiveTheme' = SchemeOf(systemPrefersDark)
       /\ BodyShows(bodyClasses', systemPrefersDark)
       /\ mqlListeners # {} => BodyShows(bodyClasses', mqlMatches)]_vars

C8_Witness ==
  /\ lastOp \in ToggleOps
  /\ currentTheme = AUTO
  /\ mqlListeners # {}
  /\ spdAtLeaveAuto = LIGHT
  /\ mqlMatches
  /\ bodyClasses = {BODY_CLASS_DARK}

\* C9: when init's body runs with the container or its icon absent it ends
\* there: currentTheme, systemPrefersDark, the store, the body classes and
\* the control's attributes are left as they were (the defaults, when no
\* toggle came before), the preference is not read and no click, keydown or
\* system-preference listener is attached; and init does not run again on
\* that page.
C9_InitAbortsOnMissingHandle ==
  [][/\ (lastOp' \in {"initAbort", "initOK"} /\ ~(domSwitcher /\ domIcon)) =>
          /\ initResult' = "aborted"
          /\ currentTheme' = currentTheme
          /\ systemPrefersDark' = systemPrefersDark
          /\ saveStatus = "none" =>
               (currentTheme' = AUTO /\ systemPrefersDark' = FALSE)
          /\ UNCHANGED <<stored, bodyClasses, iconClasses, title, ariaLabel>>
          /\ loadStatus' = "none"
          /\ clickListeners' = {}
          /\ keydownListeners' = {}
          /\ mqlListeners' = {}
     /\ (initResult = "aborted" /\ lastOp' # "reload") =>
          /\ initResult' = "aborted"
          /\ lastOp' \notin {"initAbort", "initOK", "initDeferred"}
          /\ loadStatus' = "none"
          /\ clickListeners' = {}
          /\ keydownListeners' = {}
          /\ mqlListeners' = {}]_vars

C9_Witness ==
  /\ lastOp = "initAbort"
  /\ initResult = "aborted"
  /\ domSwitcher
  /\ ~domIcon
  /\ themeSwitcher
  /\ ~themeIcon
  /\ stored = LIGHT
  /\ currentTheme = AUTO
  /\ bodyClasses = {}

\* C10 as stated: after init aborted on a missing handle, a call of the
\* exported toggleTheme() changes neither the mode, the stored value, the
\* body theme class nor any attribute or class of the control.
C10_ToggleAfterAbortIsNoOp ==
  [][(initResult = "aborted" /\ lastOp' = "toggle") =>
       /\ currentTheme' = currentTheme
       /\ stored' = stored
       /\ bodyClasses' = bodyClasses
       /\ title' = title
       /\ ariaLabel' = ariaLabel
       /\ iconClasses' = iconClasses]_vars

\* the mode one toggleTheme() call leads to, as the specification's table
TableNext(cur, dark) ==
  IF cur = AUTO THEN (IF dark THEN LIGHT ELSE DARK)
  ELSE IF cur = LIGHT THEN DARK
  ELSE AUTO

\* the scheme the mode `cur` resolves to is dark
ResolvesDark(cur, dark) == IF cur = AUTO THEN dark ELSE cur = DARK

\* C11: a storage failure is swallowed.  A toggle whose write throws still
\* advances currentTheme by the table and re-applies body class, icon and
\* tooltip for the new mode, the store keeping its value; an init whose read
\* throws leaves currentTheme as it was (AUTO, when no toggle came before),
\* still applies the theme and attaches the click and keydown listeners.
C11_StorageFailureSwallowed ==
  [][/\ (lastOp' \in ToggleOps /\ saveStatus' = "threw") =>
          /\ currentTheme' = TableNext(currentTheme, systemPrefersDark)
          /\ stored' = stored
          /\ BodyShows(bodyClasses', ResolvesDark(currentTheme', systemPrefersDark'))
          /\ effectiveTheme' = SchemeOf(ResolvesDark(currentTheme', systemPrefersDark'))
          /\ themeSwitcher => title' = TooltipFor(currentTheme')
          /\ themeIcon => Cardinality(iconClasses') = 1
     /\ (lastOp' = "initOK" /\ loadStatus' = "threw") =>
          /\ currentTheme' = currentTheme
          /\ saveStatus = "none" => currentTheme' = AUTO
          /\ initResult' = "ok"
          /\ BodyShows(bodyClasses', ResolvesDark(currentTheme', systemPrefersDark'))
          /\ clickListeners' = {"handleThemeToggle"}
          /\ keydownListeners' = {"handleKeyDown"}]_vars

C11_Witness ==
  /\ lastOp = "click"
  /\ saveStatus = "threw"
  /\ loadStatus = "threw"
  /\ stored = LIGHT
  /\ currentTheme = DARK
  /\ bodyClasses = {BODY_CLASS_DARK}

\* C12: the store is written by toggles and by nothing else.  After a toggle
\* whose write succeeds the stored value is the new currentTheme; init (also
\* with an invalid stored value), a system-preference change, a
\* getCurrentTheme() call, any other key and a page load leave it as it is.
C12_StoreWrittenOnlyByToggle ==
  [][/\ (lastOp' \in ToggleOps /\ saveStatus' = "ok") => stored' = currentTheme'
     /\ lastOp' \notin ToggleOps => stored' = stored]_vars

C12_Witness ==
  /\ initResult = "ok"
  /\ loadStatus = "ok"
  /\ stored = "purple"
  /\ currentTheme = AUTO
  /\ lastOp = "syschange"
  /\ getResult.current = AUTO

\* C13: in every state after a successful init the icon and the tooltip are
\* given by currentTheme alone: AUTO has the adjust glyph and "Switch to
\* light mode", LIGHT the moon glyph and "Switch to dark mode", DARK the sun
\* glyph and "Switch to auto mode"; one glyph class only is present, and
\* title and aria-label carry the same text.
C13_IconAndTooltipByMode ==
  initResult = "ok" =>
    /\ currentTheme = AUTO =>
         (iconClasses = {"fa-adjust"} /\ title = "Switch to light mode")
    /\ currentTheme = LIGHT =>
         (iconClasses = {"fa-moon"} /\ title = "Switch to dark mode")
    /\ currentTheme = DARK =>
         (iconClasses = {"fa-sun"} /\ title = "Switch to auto mode")
    /\ Cardinality(iconClasses \cap IconGlyphs) = 1
    /\ ariaLabel = title

C13_Witness ==
  /\ initResult = "ok"
  /\ lastOp = "syschange"
  /\ currentTheme = DARK
  /\ ~systemPrefersDark
  /\ iconClasses = {FA_SUN}
  /\ title = TIP_AUTO
  /\ ariaLabel = TIP_AUTO

\* C14: init's body runs once per page load.  A call while the document is
\* loading only registers init for the document-ready event; when that event
\* fires the body runs, once; with the document already ready the body runs
\* at once.  Each of the click, keydown and system-preference listeners is
\* attached at most once, and one click or Enter/Space keydown makes one
\* toggleTheme() step.
C14_InitRunsOnce ==
  [][/\ initRuns' <= 1
     /\ lastOp' = "initDeferred" =>
          /\ initRuns' = 0
          /\ "init" \in dclListeners'
          /\ UNCHANGED <<currentTheme, systemPrefersDark, themeSwitcher,
                         themeIcon, storeVars, viewVars, mqlListeners,
                         clickListeners, keydownListeners>>
     /\ (exported' /\ readyState' = "ready") => initRuns' = 1
     /\ (exported' /\ readyState' = "loading") => initRuns' = 0
     /\ initRuns = 1 /\ lastOp' # "reload" => initRuns' = 1
     /\ Cardinality(clickListeners') <= 1
     /\ Cardinality(keydownListeners') <= 1
     /\ Cardinality(mqlListeners') <= 1
     /\ Cardinality(dclListeners') <= 1
     /\ lastOp' \in {"click", "keyToggle"} =>
          currentTheme' = TableNext(currentTheme, systemPrefersDark)]_vars

C14_Witness ==
  /\ lastOp = "click"
  /\ initRuns = 1
  /\ dclListeners = {"init"}
  /\ readyState = "ready"
  /\ clickListeners = {"handleThemeToggle"}
  /\ currentTheme = LIGHT

\* C15: in every state after a successful init the body carries exactly one
\* of the two theme classes, the one of getCurrentTheme().effective.
C15_BodyClassMatchesEffective ==
  initResult = "ok" =>
    /\ Cardinality(bodyClasses \cap {"manual-light", "manual-dark"}) = 1
    /\ GetCurrentTheme(currentTheme, systemPrefersDark).effective = DARK
         => bodyClasses = {"manual-dark"}
    /\ GetCurrentTheme(currentTheme, systemPrefersDark).effective = LIGHT
         => bodyClasses = {"manual-light"}

C15_Witness ==
  /\ initResult = "ok"
  /\ lastOp = "syschange"
  /\ currentTheme = LIGHT
  /\ systemPrefersDark
  /\ bodyClasses = {BODY_CLASS_LIGHT}

\* C16: the mode machine has no terminal state.  Once the script has run a
\* toggle can always be made, whatever the mode and the system preference;
\* every toggle changes the mode; the mode is AUTO again at the third toggle
\* at the latest; and when toggles keep being made the mode is AUTO and is
\* DARK again and again.
C16_NoTerminalMode ==
  /\ [](exported => ENABLED ExportedToggle)
  /\ [][lastOp' \in ToggleOps => currentTheme' # currentTheme]_vars
  /\ [](sinceAuto <= 2)
  /\ []<>(currentTheme = AUTO)
  /\ []<>(currentTheme = DARK)

C16_Witness ==
  /\ lastOp = "toggle"
  /\ sinceAuto = 0
  /\ cycleStep = 2
  /\ ~systemPrefersDark
  /\ currentTheme = AUTO
  /\ initResult = "ok"

\* the other one of the two body theme classes
Flipped(classes) == BodyThemeClasses \ classes

\* C17: with a theme class on the body, a toggle out of AUTO puts the
\* opposite class on the body, for either system preference; so does a toggle
\* from LIGHT; a toggle from DARK flips the class when systemPrefersDark is
\* false and keeps it when systemPrefersDark is true.
C17_ToggleFlipsShownTheme ==
  [][(lastOp' \in ToggleOps /\ Cardinality(bodyClasses) = 1) =>
       /\ currentTheme = AUTO => bodyClasses' = Flipped(bodyClasses)
       /\ currentTheme = LIGHT => bodyClasses' = Flipped(bodyClasses)
       /\ (currentTheme = DARK /\ ~systemPrefersDark) =>
            bodyClasses' = Flipped(bodyClasses)
       /\ (currentTheme = DARK /\ systemPrefersDark) =>
            bodyClasses' = bodyClasses]_vars

C17_Witness ==
  /\ lastOp = "click"
  /\ cycleStep = 1
  /\ spdAtLeaveAuto = DARK
  /\ systemPrefersDark
  /\ currentTheme = LIGHT
  /\ bodyClasses = {BODY_CLASS_LIGHT}

\* the step dispatches a keydown event to the control
KeyDownStep == lastOp' \in {"keyToggle", "keyOther"}

\* C18: a click on the control, and a keydown whose key is Enter or Space,
\* prevents the default action and makes one toggleTheme() step (the mode
\* advances by the table, the new mode is saved when the write succeeds, the
\* view is re-applied); a keydown with another key leaves mode, store, body
\* class, icon and tooltip as they are and does not prevent the default
\* action.
C18_ActivationEvents ==
  [][/\ (lastOp' = "click" \/ (KeyDownStep /\ lastKey' \in {"Enter", " "})) =>
          /\ defaultPrevented'
          /\ currentTheme' = TableNext(currentTheme, systemPrefersDark)
          /\ saveStatus' \in {"ok", "threw"}
          /\ saveStatus' = "ok" => stored' = currentTheme'
          /\ BodyShows(bodyClasses', ResolvesDark(currentTheme', systemPrefersDark))
     /\ (KeyDownStep /\ lastKey' \notin {"Enter", " "}) =>
          /\ ~defaultPrevented'
          /\ UNCHANGED <<currentTheme, systemPrefersDark, storeVars, viewVars>>]_vars

C18_Witness ==
  /\ lastOp = "keyToggle"
  /\ lastKey = " "
  /\ defaultPrevented
  /\ currentTheme = DARK
  /\ stored = DARK
  /\ saveStatus = "ok"

\* the tooltip text that names `mode`
TipNaming(mode) ==
  IF mode = LIGHT THEN "Switch to light mode"
  ELSE IF mode = DARK THEN "Switch to dark mode"
  ELSE "Switch to auto mode"

\* C19: in every state after a successful init, title and aria-label name the
\* mode the next toggleTheme() call produces under the current system
\* preference.
C19_TooltipNamesNextMode ==
  initResult = "ok" =>
    /\ title = TipNaming(TableNext(currentTheme, systemPrefersDark))
    /\ ariaLabel = TipNaming(TableNext(currentTheme, systemPrefersDark))

\* a stored value read as a mode: absent or invalid counts as AUTO
AsMode(value) == IF value \in {"light", "dark", "auto"} THEN value ELSE AUTO

\* C20: whenever toggleTheme() writes the store, the mode it advances from is
\* the value the store held just before the write (absent or invalid counting
\* as AUTO); stated for pages on which no storage access has thrown, so that
\* only the order of calls decides it.
C20_ToggleAdvancesFromStoredMode ==
  [][(/\ lastOp' \in ToggleOps
      /\ saveStatus' = "ok"
      /\ loadStatus # "threw"
      /\ saveStatus # "threw") =>
       currentTheme = AsMode(stored)]_vars
====
